---- MODULE Spec2Model ----
(***************************************************************************)
(* mks: create directory structures from tree-like text (src/main.rs).     *)
(*                                                                         *)
(* A text is a sequence of characters; a character is a one-element        *)
(* string, and the box-drawing glyphs and icons, which are single Rust     *)
(* chars, are the atoms VBar, Tee, Ell, Dash, Doc, Check, ... below.       *)
(* A path is a sequence of components; the first component is CurDir or    *)
(* RootDir.  The filesystem is the set of entries [path, kind] that exist. *)
(***************************************************************************)
EXTENDS Integers, Sequences, FiniteSets, TLC

\* ------------------------------------------------------------------ bounds
MaxNodes == 3
MaxDepth == 2
MaxLines == 2
MaxBars == 2
MaxPad == 2

\* -------------------------------------------------------------- characters
VBar == "VBAR"
Tee == "TEE"
Ell == "ELL"
Dash == "DASH"
TeeDown == "TEEDOWN"
Cross == "CROSS"
Doc == "DOC"
Folder == "FOLDER"
Check == "CHECK"
CrossMark == "CROSSMARK"
ArrowLeft == "ARROWLEFT"
ArrowRight == "ARROWRIGHT"
Emoji == {Doc, Folder, "OPENFOLDER", "PAGE", "CLIPBOARD", "MEMO", "DIVIDERS",
          "CARDBOX", "TABS", "BARCHART", "CHARTUP", "CHARTDOWN", Check, CrossMark,
          "WARNING", "RED", "GREEN", "YELLOW"}

\* Option::None of a text, and of a path
None == <<"NONE">>
NoPath == <<None>>

VARIABLES
  lines,           \* main: the input lines
  debug,           \* main: the --debug flag
  windows,         \* cfg!(target_os = "windows") of the build
  pc,              \* position of main: read, parse, build, done, failed, exit1
  idx,             \* main: number of lines handled by the parse loop
  nodes,           \* main: Vec<TreeNode>
  root_full_path,  \* main: Option<String>
  parse_errors,    \* main: counter
  base_path,       \* main: PathBuf handed to create_structure
  cur,             \* create_structure: number of nodes handled by the loop
  path_stack,      \* create_structure: Vec<String>
  fs,              \* the filesystem
  calls,           \* the filesystem creation calls issued so far, in order
  trace            \* number of diagnostic lines written because of --debug

vars == <<lines, debug, windows, pc, idx, nodes, root_full_path, parse_errors,
          base_path, cur, path_stack, fs, calls, trace>>

\* ------------------------------------------------------------ text helpers
IsWhitespace(c) == c \in {" ", "\t"}

RECURSIVE TrimStart(_)
TrimStart(s) ==
  IF s # <<>> /\ IsWhitespace(Head(s)) THEN TrimStart(Tail(s)) ELSE s

RECURSIVE TrimEnd(_)
TrimEnd(s) ==
  IF s # <<>> /\ IsWhitespace(s[Len(s)]) THEN TrimEnd(SubSeq(s, 1, Len(s) - 1)) ELSE s

Trim(s) == TrimEnd(TrimStart(s))

\* s[from..] in Rust slice notation, from counted from 0
From(s, from) == SubSeq(s, from + 1, Len(s))

StartsWith(s, p) == Len(s) >= Len(p) /\ SubSeq(s, 1, Len(p)) = p

EndsWith(s, p) == Len(s) >= Len(p) /\ SubSeq(s, Len(s) - Len(p) + 1, Len(s)) = p

\* the 0-based positions at which p occurs in s
Occurrences(s, p) == {i \in 0..(Len(s) - Len(p)) : SubSeq(s, i + 1, i + Len(p)) = p}

Contains(s, p) == Occurrences(s, p) # {}

Min(S) == CHOOSE x \in S : \A y \in S : x <= y

Max(S) == CHOOSE x \in S : \A y \in S : x >= y

\* str::split('&'): the pieces between the delimiters, empty pieces included
RECURSIVE SplitOn(_, _)
SplitOn(s, d) ==
  LET at == {i \in 1..Len(s) : s[i] = d}
  IN IF at = {} THEN <<s>>
     ELSE <<SubSeq(s, 1, Min(at) - 1)>> \o SplitOn(SubSeq(s, Min(at) + 1, Len(s)), d)

RECURSIVE MapTrim(_)
MapTrim(ss) == IF ss = <<>> THEN <<>> ELSE <<Trim(Head(ss))>> \o MapTrim(Tail(ss))

NonEmpty(s) == s # <<>>

\* ------------------------------------------------------------- filesystem
CurDir == <<".">>
RootDir == <<"/">>
Cwd == <<CurDir>>

Entry(p, k) == [path |-> p, kind |-> k]

\* the component `..` of a path
DotDot == <<".", ".">>

\* what exists before the run: the root, the working directory and the
\* directory above it
InitialFs == {Entry(<<RootDir>>, "dir"), Entry(Cwd, "dir"), Entry(<<CurDir, DotDot>>, "dir")}

Prefixes(p) == {SubSeq(p, 1, k) : k \in 1..Len(p)}

Parent(p) == SubSeq(p, 1, Len(p) - 1)

Call(op, p, ok) == [op |-> op, path |-> p, ok |-> ok]

\* the directory a component leads to from the directory `at`: `..` steps
\* out of it, and stays at the root
Enter(at, c) ==
  IF c # DotDot THEN Append(at, c)
  ELSE IF at = <<>> \/ at[Len(at)] \in {CurDir, DotDot} THEN Append(at, DotDot)
  ELSE IF at = <<RootDir>> THEN at
  ELSE SubSeq(at, 1, Len(at) - 1)

\* the entry the operating system reaches by a path
RECURSIVE ResolveFrom(_, _)
ResolveFrom(at, rest) ==
  IF rest = <<>> THEN at ELSE ResolveFrom(Enter(at, Head(rest)), Tail(rest))

Resolve(p) == ResolveFrom(<<>>, p)

\* fs::create_dir_all(p): fails when a prefix of p exists and is not a
\* directory, or when the environment refuses (fail); creates what is missing
DirAllOk(f, p, fail) == ~fail /\ \A q \in Prefixes(p) : Entry(Resolve(q), "file") \notin f

DirAllFs(f, p) == f \cup {Entry(Resolve(q), "dir") : q \in Prefixes(p)}

\* File::create(p): fails when p is a directory, when its parent is none, or
\* when the environment refuses; creates or truncates the file
FileCreateOk(f, p, fail) ==
  /\ ~fail
  /\ Entry(Resolve(p), "dir") \notin f
  /\ Len(p) > 1 => Entry(Resolve(Parent(p)), "dir") \in f

FileCreateFs(f, p) == f \cup {Entry(Resolve(p), "file")}

\* ----------------------------------------------------------- path utilities
\* number of bytes of a character in UTF-8: the glyph atoms are multi-byte
Glyphs == {VBar, Tee, Ell, Dash, TeeDown, Cross, ArrowLeft, ArrowRight}

ByteLen(c) == IF c \in Glyphs \/ c \in Emoji THEN 3 ELSE 1

RECURSIVE TrimEndMatches(_, _)
TrimEndMatches(s, set) ==
  IF s # <<>> /\ s[Len(s)] \in set THEN TrimEndMatches(SubSeq(s, 1, Len(s) - 1), set) ELSE s

RECURSIVE TrimStartMatches(_, _)
TrimStartMatches(s, set) ==
  IF s # <<>> /\ Head(s) \in set THEN TrimStartMatches(Tail(s), set) ELSE s

\* the pieces of a path between separators `/` (std::path on every platform;
\* no input of the model holds a backslash or a drive prefix)
Pieces(s) == SelectSeq(SplitOn(s, "/"), NonEmpty)

IsDot(piece) == piece = <<".">>

IsNotDot(piece) == ~IsDot(piece)

\* Path::components of a text: RootDir when it starts with a separator, then
\* the pieces, `.` pieces dropped except a leading one
Components(s) ==
  IF s = <<>> THEN <<>>
  ELSE IF s[1] = "/" THEN <<RootDir>> \o SelectSeq(Pieces(s), IsNotDot)
  ELSE IF Pieces(s) # <<>> /\ IsDot(Pieces(s)[1])
       THEN <<CurDir>> \o SelectSeq(Tail(Pieces(s)), IsNotDot)
  ELSE SelectSeq(Pieces(s), IsNotDot)

\* Path::file_name: the last component when it is a normal one
FileName(s) ==
  LET c == Components(s)
  IN IF c = <<>> \/ c[Len(c)] \in {RootDir, CurDir, DotDot} THEN None
     ELSE c[Len(c)]

\* Path::parent: the path without its last component; none for a root or ""
PathParent(s) ==
  LET c == Components(s)
  IN IF c = <<>> \/ c[Len(c)] = RootDir THEN NoPath
     ELSE SubSeq(c, 1, Len(c) - 1)

extract_base_name(path_str) == FileName(TrimEndMatches(path_str, {"/", "\\"}))

extract_parent_path(path_str) == PathParent(TrimEndMatches(path_str, {"/", "\\"}))

\* bytes[1] and bytes[2] are the second and third character only when the
\* characters before them are one byte long
is_absolute_path(str) ==
  LET s == Trim(str)
  IN \/ /\ Len(s) >= 3
        /\ ByteLen(s[1]) = 1
        /\ s[2] = ":"
        /\ s[3] \in {"\\", "/"}
     \/ StartsWith(s, <<"\\", "\\">>)
     \/ StartsWith(s, <<"/", "/">>)
     \/ StartsWith(s, <<"/">>)

\* ----------------------------------------------------------------- parsing
strip_emoji_prefix(s) ==
  Trim(TrimStartMatches(s, Emoji \cup {" ", "\t"}))

CommentMarks == {"#", Check, CrossMark, ArrowLeft, ArrowRight}

remove_comments(line) ==
  LET at == {i \in 1..Len(line) : line[i] \in CommentMarks}
  IN TrimEnd(IF at = {} THEN line ELSE SubSeq(line, 1, Min(at) - 1))

calculate_indent(line) == Cardinality({i \in 1..Len(line) : line[i] = VBar})

Markers == << <<Tee, Dash, Dash, " ">>, <<Ell, Dash, Dash, " ">>,
             <<Tee, Dash, " ">>, <<Ell, Dash, " ">>,
             <<Tee, Dash>>, <<Ell, Dash>> >>

TreeChars == {VBar, Tee, Ell, Dash, TeeDown, Cross, " ", "\t"}

Found(name, full) == [found |-> TRUE, name |-> name, full |-> full]

NotFound == [found |-> FALSE, name |-> None, full |-> None]

\* Some((name, optional full path)), or None
extract_name_from_line(line) ==
  LET hit == {m \in 1..Len(Markers) : Contains(line, Markers[m])}
  IN IF hit # {}
     THEN LET marker == Markers[Min(hit)]
              pos == Min(Occurrences(line, marker))
          IN Found(Trim(From(line, pos + Len(marker))), None)
     ELSE LET cleaned == strip_emoji_prefix(TrimStartMatches(Trim(line), TreeChars))
          IN IF cleaned = <<>> THEN NotFound
             ELSE IF is_absolute_path(cleaned) /\ extract_base_name(cleaned) # None
                  THEN Found(extract_base_name(cleaned), cleaned)
             ELSE Found(cleaned, None)

\* ---------------------------------------------------------------- validation
Lower == <<"a", "b", "c", "d", "e", "f", "g", "h", "i", "j", "k", "l", "m",
           "n", "o", "p", "q", "r", "s", "t", "u", "v", "w", "x", "y", "z">>

Upper == <<"A", "B", "C", "D", "E", "F", "G", "H", "I", "J", "K", "L", "M",
           "N", "O", "P", "Q", "R", "S", "T", "U", "V", "W", "X", "Y", "Z">>

ToUpperChar(c) ==
  IF \E i \in 1..Len(Lower) : Lower[i] = c
  THEN Upper[CHOOSE i \in 1..Len(Lower) : Lower[i] = c]
  ELSE c

to_uppercase(s) == [i \in 1..Len(s) |-> ToUpperChar(s[i])]

Reserved ==
  {<<"C", "O", "N">>, <<"P", "R", "N">>, <<"A", "U", "X">>, <<"N", "U", "L">>}
  \cup {<<"C", "O", "M", d>> : d \in {"1", "2", "3", "4", "5", "6", "7", "8", "9"}}
  \cup {<<"L", "P", "T", d>> : d \in {"1", "2", "3", "4", "5", "6", "7", "8", "9"}}

WindowsIllegal == {"<", ">", ":", "\"", "/", "\\", "|", "?", "*"}

NulChar == "NULCHAR"

\* char::is_control, on the characters of the model
IsControl(c) == c \in {NulChar, "\t", "\r", "\n", "\f"}

RECURSIVE ByteLength(_)
ByteLength(s) == IF s = <<>> THEN 0 ELSE ByteLen(Head(s)) + ByteLength(Tail(s))

NameLimit == 255

is_valid_filename(name, win) ==
  LET trimmed == Trim(name)
  IN /\ name # <<>>
     /\ ByteLength(name) <= NameLimit
     /\ trimmed # <<>>
     /\ \A i \in 1..Len(name) : name[i] # NulChar
     /\ IF win
        THEN /\ SplitOn(to_uppercase(trimmed), ".")[1] \notin Reserved
             /\ \A i \in 1..Len(name) : name[i] \notin WindowsIllegal
             /\ ~EndsWith(trimmed, <<" ">>)
             /\ ~EndsWith(trimmed, <<".">>)
        ELSE \A i \in 1..Len(name) : name[i] # "/"
     /\ \A i \in 1..Len(name) : IsControl(name[i]) => name[i] = "\t"

\* ------------------------------------------------------------ parse_tree_line
\* TreeNode that numbers the lines from 0
TreeNodeZeroBased(indent, name, is_dir, line_number) ==
  [indent |-> indent, name |-> name, is_dir |-> is_dir, line_number |-> line_number - 1]

TreeNode(indent, name, is_dir, line_number) ==
  [indent |-> indent, name |-> name, is_dir |-> is_dir, line_number |-> line_number]

Parsed(node, full) == [ok |-> TRUE, err |-> "", node |-> node, full |-> full]

Failed(err) == [ok |-> FALSE, err |-> err, node |-> TreeNode(0, None, FALSE, 0), full |-> None]

\* "Remove size info: (0.00 B), (1.2 KB), etc."
StripSize(name) ==
  LET at == Occurrences(name, <<" ", "(">>)
  IN IF at # {} /\ (\/ Contains(From(name, Max(at)), <<"B", ")">>)
                    \/ Contains(From(name, Max(at)), <<"K", "B", ")">>)
                    \/ Contains(From(name, Max(at)), <<"M", "B", ")">>))
     THEN Trim(SubSeq(name, 1, Max(at)))
     ELSE name

parse_tree_line(raw, line_number, win) ==
  LET trimmed == TrimEnd(raw)
      line == remove_comments(trimmed)
      indent == calculate_indent(line)
      found == extract_name_from_line(line)
      sized == StripSize(strip_emoji_prefix(found.name))
      is_dir == EndsWith(sized, <<"/">>)
      name == IF is_dir THEN Trim(SubSeq(sized, 1, Len(sized) - 1)) ELSE sized
  IN IF trimmed = <<>> THEN Failed("EmptyLine")
     ELSE IF line = <<>> THEN Failed("EmptyAfterComment")
     ELSE IF ~found.found THEN Failed("NoNameFound")
     ELSE IF name = <<>> \/ ~is_valid_filename(name, win) THEN Failed("InvalidFilename")
     ELSE Parsed(TreeNode(indent, name, is_dir, line_number), found.full)

\* ------------------------------------------------------- create_structure
\* node.name.split('&').map(trim).filter(non-empty).collect()
SplitNames(name) == SelectSeq(MapTrim(SplitOn(name, "&")), NonEmpty)

\* base_path.join(name) and full_path.push(name), for a name that is not
\* itself absolute (no parsed name holds a path separator)
Join(p, name) == Append(p, name)

\* AdjustStack that never truncates
AdjustStackKeepsDeeper(stack, indent, dbg) ==
  IF indent = 0 THEN <<>> ELSE stack

\* AdjustStack whose depth-jump warning also drops the stack
AdjustStackDebugClears(stack, indent, dbg) ==
  IF indent = 0 THEN <<>>
  ELSE IF indent > Len(stack) THEN (IF dbg THEN <<>> ELSE stack)
  ELSE IF indent < Len(stack) THEN SubSeq(stack, 1, indent)
  ELSE stack

\* AdjustStack that drops the stack at a depth jump
AdjustStackClearsOnJump(stack, indent, dbg) ==
  IF indent = 0 THEN <<>>
  ELSE IF indent > Len(stack) THEN <<>>
  ELSE IF indent < Len(stack) THEN SubSeq(stack, 1, indent)
  ELSE stack

\* AdjustStack that keeps the stack at depth 0
AdjustStackKeepsAtRoot(stack, indent, dbg) ==
  IF indent = 0 THEN stack
  ELSE IF indent > Len(stack) THEN stack
  ELSE IF indent < Len(stack) THEN SubSeq(stack, 1, indent)
  ELSE stack

\* AdjustStack that gives up the deepest ancestor at a depth jump
AdjustStackTruncatesOnJump(stack, indent, dbg) ==
  IF indent = 0 THEN <<>>
  ELSE IF indent > Len(stack) THEN SubSeq(stack, 1, Len(stack) - 1)
  ELSE IF indent < Len(stack) THEN SubSeq(stack, 1, indent)
  ELSE stack

\* the stack the targets of a node are created under: cleared at indent 0,
\* left as it is when the indent exceeds its length (a warning under debug),
\* truncated to the indent otherwise
AdjustStack(stack, indent, dbg) ==
  IF indent = 0 THEN <<>>
  ELSE IF indent > Len(stack) THEN stack
  ELSE IF indent < Len(stack) THEN SubSeq(stack, 1, indent)
  ELSE stack

\* diagnostic lines of one loop iteration up to the creation of the targets
AdjustTrace(stack, indent, dbg) ==
  IF ~dbg THEN 0
  ELSE IF indent = 0 THEN 2
  ELSE IF indent > Len(stack) THEN 4
  ELSE 3

\* PushFirst that pushes the last name of the node
PushLast(stack, names, is_dir) ==
  IF is_dir /\ names # <<>> THEN Append(stack, names[Len(names)]) ELSE stack

\* PushFirst that pushes the first name of a file node too
PushFirstOfAnyKind(stack, names, is_dir) ==
  IF names # <<>> THEN Append(stack, names[1]) ELSE stack

\* "Push first name for hierarchy"
PushFirst(stack, names, is_dir) ==
  IF is_dir /\ names # <<>> THEN Append(stack, names[1]) ELSE stack

\* one target: a directory with all its missing ancestors, or the parent
\* directories and then the empty file; `?` returns at the first failing call.
\* st.calls are the calls of the current node, failAt the call the environment
\* refuses (0: none)
CreateOne(st, full_path, is_dir, failAt, dbg) ==
  LET n == Len(st.calls)
      shown == IF dbg THEN 1 ELSE 0
  IN IF is_dir
     THEN LET ok == DirAllOk(st.fs, full_path, failAt = n + 1)
          IN [fs |-> IF ok THEN DirAllFs(st.fs, full_path) ELSE st.fs,
              calls |-> Append(st.calls, Call("create_dir_all", full_path, ok)),
              ok |-> ok,
              trace |-> st.trace + IF ok THEN shown ELSE 0]
     ELSE LET parent == Parent(full_path)
              pok == DirAllOk(st.fs, parent, failAt = n + 1)
              f1 == IF pok THEN DirAllFs(st.fs, parent) ELSE st.fs
              c1 == Append(st.calls, Call("create_dir_all", parent, pok))
              fok == FileCreateOk(f1, full_path, failAt = n + 2)
          IN IF ~pok
             THEN [fs |-> f1, calls |-> c1, ok |-> FALSE, trace |-> st.trace]
             ELSE [fs |-> IF fok THEN FileCreateFs(f1, full_path) ELSE f1,
                   calls |-> Append(c1, Call("File::create", full_path, fok)),
                   ok |-> fok,
                   trace |-> st.trace + IF fok THEN shown ELSE 0]

\* CreateTargets that goes on to the next name after a failed call
RECURSIVE CreateTargetsIgnoringFailure(_, _, _, _, _, _, _)
CreateTargetsIgnoringFailure(names, k, dir, is_dir, st, failAt, dbg) ==
  IF k > Len(names) THEN st
  ELSE CreateTargetsIgnoringFailure(names, k + 1, dir, is_dir,
                                    CreateOne(st, Join(dir, names[k]), is_dir, failAt, dbg),
                                    failAt, dbg)

\* `for name in &names { ... }` of one node, from the k-th name on
RECURSIVE CreateTargets(_, _, _, _, _, _, _)
CreateTargets(names, k, dir, is_dir, st, failAt, dbg) ==
  IF k > Len(names) \/ ~st.ok THEN st
  ELSE CreateTargets(names, k + 1, dir, is_dir,
                     CreateOne(st, Join(dir, names[k]), is_dir, failAt, dbg),
                     failAt, dbg)

RECURSIVE JoinAll(_, _)
JoinAll(p, stack) == IF stack = <<>> THEN p ELSE JoinAll(Join(p, Head(stack)), Tail(stack))

\* one iteration of `for node in nodes`: the stack, the filesystem, the calls
\* issued, whether every call succeeded, and the diagnostic lines written
NodeOutcome(node, stack, base, f, failAt, dbg) ==
  LET names == SplitNames(node.name)
      head == IF dbg THEN 2 ELSE 0
  IN IF names = <<>>
     THEN [path_stack |-> stack, fs |-> f, calls |-> <<>>, ok |-> TRUE, trace |-> head]
     ELSE LET adj == AdjustStack(stack, node.indent, dbg)
              r == CreateTargets(names, 1, JoinAll(base, adj), node.is_dir,
                                 [fs |-> f, calls |-> <<>>, ok |-> TRUE, trace |-> 0],
                                 failAt, dbg)
          IN [path_stack |-> IF r.ok THEN PushFirst(adj, names, node.is_dir) ELSE adj,
              fs |-> r.fs,
              calls |-> r.calls,
              ok |-> r.ok,
              trace |-> AdjustTrace(stack, node.indent, dbg) + r.trace]

\* the body of the loop applied to `node`
ProcessNodeWith(node) ==
  \E failAt \in 0..(2 * Len(SplitNames(node.name))) :
    LET r == NodeOutcome(node, path_stack, base_path, fs, failAt, debug)
    IN /\ path_stack' = r.path_stack
       /\ fs' = r.fs
       /\ calls' = calls \o r.calls
       /\ trace' = trace + r.trace
       /\ cur' = IF r.ok THEN cur + 1 ELSE cur
       /\ pc' = IF r.ok THEN "build" ELSE "failed"

\* create_structure called by main: the next parsed node
ProcessNode ==
  /\ pc = "build"
  /\ cur < Len(nodes)
  /\ ProcessNodeWith(nodes[cur + 1])
  /\ UNCHANGED <<lines, debug, windows, idx, nodes, root_full_path, parse_errors, base_path>>

\* the loop is over: Ok(()), and main reports success
Finish ==
  /\ pc = "build"
  /\ cur = Len(nodes)
  /\ pc' = "done"
  /\ UNCHANGED <<lines, debug, windows, idx, nodes, root_full_path, parse_errors,
                 base_path, cur, path_stack, fs, calls, trace>>

\* ------------------------------------------- create_structure on any slice
NodeNames == {<<"a">>, <<"b", " ", "&", " ", "a">>, <<"&">>}

NodeInputs(n) ==
  {TreeNode(d, name, k, n) : d \in 0..MaxDepth, name \in NodeNames, k \in BOOLEAN}

InitBuild ==
  /\ lines = <<>>
  /\ debug = FALSE
  /\ windows = FALSE
  /\ pc = "build"
  /\ idx = 0
  /\ nodes = <<>>
  /\ root_full_path = None
  /\ parse_errors = 0
  /\ base_path = Cwd
  /\ cur = 0
  /\ path_stack = <<>>
  /\ fs = InitialFs
  /\ calls = <<>>
  /\ trace = IF debug THEN 2 ELSE 0

\* the next element of the slice, whatever it is
ProcessAnyNode ==
  /\ pc = "build"
  /\ cur = Len(nodes)
  /\ Len(nodes) < MaxNodes
  /\ \E node \in NodeInputs(Len(nodes) + 1) :
       /\ nodes' = Append(nodes, node)
       /\ ProcessNodeWith(node)
  /\ UNCHANGED <<lines, debug, windows, idx, root_full_path, parse_errors, base_path>>

NextBuild == ProcessAnyNode \/ Finish

SpecBuild == InitBuild /\ [][NextBuild]_vars

\* ------------------------------------------------------------------ inputs
LineProject == <<"p", "r", "o", "j", "e", "c", "t", "/">>
LineSrc == <<Tee, Dash, Dash, " ", "s", "r", "c", "/">>
LineMain == <<VBar, " ", " ", " ", Tee, Dash, Dash, " ", "m", "a", "i", "n", ".", "e", "x", "t">>
LineLib == <<VBar, " ", " ", " ", Ell, Dash, Dash, " ", "l", "i", "b", ".", "e", "x", "t">>
LineReadme == <<Ell, Dash, Dash, " ", "R", "E", "A", "D", "M", "E", ".", "m", "d">>
LineAbs == <<"/", "h", "o", "m", "e", "/", "u", "s", "e", "r", "/", "a", "p", "p", "/">>
LineEmpty == <<>>
LineComment == <<"#", " ", "c">>
LineBarOnly == <<VBar>>
LineSlash == <<Tee, Dash, Dash, " ", "a", "/", "b">>
LineTwoFiles == <<"a", ".", "t", "x", "t", " ", "&", " ", "b", ".", "t", "x", "t">>
LineTwoDirs == <<Tee, Dash, Dash, " ", "d", " ", "&", " ", "e", "/">>
LineCon == <<Tee, Dash, Dash, " ", "c", "o", "n">>
LineSized == <<VBar, " ", VBar, " ", Ell, Dash, Dash, " ", "x", " ", "(", "1", " ", "K", "B", ")">>
LineAmp == <<"&">>
LineBareMarker == <<Tee, Dash, Dash, " ">>
LineDeep == <<" ", " ", " ", " ", " ", " ", " ", " ", " ", " ", " ", " ",
              "d", "e", "e", "p", ".", "t", "x", "t">>
LineDotDot == <<Tee, Dash, Dash, " ", ".", ".">>
LineConAnd == <<Tee, Dash, Dash, " ", "c", "o", "n", " ", "&", " ", "a">>
LineUp == <<".", ".", "/">>
LineDocs == <<Folder, " ", "d", "o", "c", "s", "/", " ", Check>>
LineSub == <<VBar, " ", Tee, Dash, Dash, " ", "s", "u", "b", "/">>

\* spec.md, end-to-end scenario 1
Scenario1 == <<LineProject, LineSrc, LineMain, LineLib, LineReadme>>

\* spec.md, end-to-end scenario 2: an absolute first line followed by children
Scenario2 == <<LineAbs, LineSrc, LineMain>>

\* a directory in a directory in a directory, then a file in the second
Nested == <<LineDocs, LineSub, LineSub, LineMain>>

\* a directory line naming `..`, then a file one level deeper
Escape == <<LineUp, LineMain>>

\* the lines every input of up to MaxLines lines is made of
Catalog == {LineEmpty, LineComment, LineBarOnly, LineSlash, LineAbs, LineDocs, LineSrc,
            LineSub, LineMain, LineTwoFiles, LineTwoDirs}

\* lines tried alone and under a directory
Extras == {LineAmp, LineCon, LineSized, LineBareMarker, LineDeep, LineDotDot, LineConAnd}

SeqsUpTo(S, n) == UNION {[1..k -> S] : k \in 0..n}

Spaces(n) == [i \in 1..n |-> " "]

RECURSIVE Bars(_, _)
Bars(n, gap) == IF n = 0 THEN <<>> ELSE <<VBar>> \o Spaces(gap) \o Bars(n - 1, gap)

\* lines whose depth is drawn with n vertical connectors, in any spacing
BarLines ==
  {Spaces(lead) \o Bars(n, gap) \o marker \o name :
     lead \in 0..MaxPad, n \in 0..MaxBars, gap \in 0..MaxPad,
     marker \in {Markers[1], Markers[2], <<>>},
     name \in {<<"x">>, <<"a", VBar, "b">>}}

Inputs ==
  {Scenario1, Scenario2, Nested, Escape}
  \cup SeqsUpTo(Catalog, MaxLines)
  \cup {<<l>> : l \in BarLines \cup Extras}
  \cup {<<LineSrc, l>> : l \in Extras}

\* --------------------------------------------------------------------- main
\* lines 446-453: the input is read; an empty one ends the run with status 1
CheckInput ==
  /\ pc = "read"
  /\ pc' = IF lines = <<>> THEN "exit1" ELSE "parse"
  /\ UNCHANGED <<lines, debug, windows, idx, nodes, root_full_path, parse_errors,
                 base_path, cur, path_stack, fs, calls, trace>>

\* one iteration of the parse loop on the line of 0-based index i
ParseStep(ns, root, errs, line, i, win, dbg) ==
  LET r == parse_tree_line(line, i + 1, win)
  IN IF r.ok
     THEN [nodes |-> Append(ns, r.node),
           root_full_path |-> IF i = 0 /\ r.full # None THEN r.full ELSE root,
           parse_errors |-> errs,
           trace |-> 0]
     ELSE [nodes |-> ns,
           root_full_path |-> root,
           parse_errors |-> errs + 1,
           trace |-> IF dbg THEN 1 ELSE 0]

\* ParseLine that ends the run at a line that fails to parse
ParseLineAbortsOnFailure ==
  /\ pc = "parse"
  /\ idx < Len(lines)
  /\ LET r == ParseStep(nodes, root_full_path, parse_errors, lines[idx + 1], idx,
                        windows, debug)
     IN /\ nodes' = r.nodes
        /\ root_full_path' = r.root_full_path
        /\ parse_errors' = r.parse_errors
        /\ trace' = trace + r.trace
        /\ pc' = IF r.parse_errors > parse_errors THEN "exit1" ELSE pc
  /\ idx' = idx + 1
  /\ UNCHANGED <<lines, debug, windows, base_path, cur, path_stack, fs, calls>>

ParseLine ==
  /\ pc = "parse"
  /\ idx < Len(lines)
  /\ LET r == ParseStep(nodes, root_full_path, parse_errors, lines[idx + 1], idx,
                        windows, debug)
     IN /\ nodes' = r.nodes
        /\ root_full_path' = r.root_full_path
        /\ parse_errors' = r.parse_errors
        /\ trace' = trace + r.trace
  /\ idx' = idx + 1
  /\ UNCHANGED <<lines, debug, windows, pc, base_path, cur, path_stack, fs, calls>>

\* NoNodes that goes on to build in the working directory
NoNodesGoesOn ==
  /\ pc = "parse"
  /\ idx = Len(lines)
  /\ nodes = <<>>
  /\ pc' = "build"
  /\ base_path' = Cwd
  /\ UNCHANGED <<lines, debug, windows, idx, nodes, root_full_path, parse_errors,
                 cur, path_stack, fs, calls, trace>>

\* lines 478-484: nothing to build
NoNodes ==
  /\ pc = "parse"
  /\ idx = Len(lines)
  /\ nodes = <<>>
  /\ pc' = "exit1"
  /\ UNCHANGED <<lines, debug, windows, idx, nodes, root_full_path, parse_errors,
                 base_path, cur, path_stack, fs, calls, trace>>

Exists(f, p) == \E e \in f : e.path = p

\* lines 486-516 and the first lines of create_structure: the base directory,
\* its creation when it is missing (fail: the environment refuses it), and the
\* diagnostic lines written on the way
RootOutcome(root, f, fail, dbg) ==
  LET parent == IF root = None THEN NoPath ELSE extract_parent_path(root)
      shown == IF dbg THEN 1 ELSE 0
  IN IF root # None /\ parent # NoPath
     THEN IF Exists(f, parent)
          THEN [base_path |-> parent, fs |-> f, calls |-> <<>>, ok |-> TRUE,
                trace |-> 3 * shown]
          ELSE LET ok == DirAllOk(f, parent, fail)
               IN [base_path |-> parent,
                   fs |-> IF ok THEN DirAllFs(f, parent) ELSE f,
                   calls |-> <<Call("create_dir_all", parent, ok)>>,
                   ok |-> ok,
                   trace |-> IF ok THEN 4 * shown ELSE shown]
     ELSE [base_path |-> Cwd, fs |-> f, calls |-> <<>>, ok |-> TRUE,
           trace |-> IF root = None THEN 4 * shown ELSE 3 * shown]

\* ResolveRoot that does not wait for the last line
ResolveRootEarly ==
  /\ pc = "parse"
  /\ idx >= 1
  /\ nodes # <<>>
  /\ \E fail \in BOOLEAN :
       LET r == RootOutcome(root_full_path, fs, fail, debug)
       IN /\ base_path' = r.base_path
          /\ fs' = r.fs
          /\ calls' = calls \o r.calls
          /\ trace' = trace + r.trace
          /\ pc' = IF r.ok THEN "build" ELSE "failed"
  /\ UNCHANGED <<lines, debug, windows, idx, nodes, root_full_path, parse_errors,
                 cur, path_stack>>

ResolveRoot ==
  /\ pc = "parse"
  /\ idx = Len(lines)
  /\ nodes # <<>>
  /\ \E fail \in BOOLEAN :
       LET r == RootOutcome(root_full_path, fs, fail, debug)
       IN /\ base_path' = r.base_path
          /\ fs' = r.fs
          /\ calls' = calls \o r.calls
          /\ trace' = trace + r.trace
          /\ pc' = IF r.ok THEN "build" ELSE "failed"
  /\ UNCHANGED <<lines, debug, windows, idx, nodes, root_full_path, parse_errors,
                 cur, path_stack>>

Init ==
  /\ lines \in Inputs
  /\ debug \in BOOLEAN
  /\ windows \in BOOLEAN
  /\ pc = "read"
  /\ idx = 0
  /\ nodes = <<>>
  /\ root_full_path = None
  /\ parse_errors = 0
  /\ base_path = NoPath
  /\ cur = 0
  /\ path_stack = <<>>
  /\ fs = InitialFs
  /\ calls = <<>>
  /\ trace = 0

Next == CheckInput \/ ParseLine \/ NoNodes \/ ResolveRoot \/ ProcessNode \/ Finish

Spec == Init /\ [][Next]_vars

\* ------------------------------------------------------------------ claims
\* what the run has created
Created == fs \ InitialFs

Text_project == <<"p", "r", "o", "j", "e", "c", "t">>
Text_src == <<"s", "r", "c">>
Text_main == <<"m", "a", "i", "n", ".", "e", "x", "t">>
Text_lib == <<"l", "i", "b", ".", "e", "x", "t">>
Text_readme == <<"R", "E", "A", "D", "M", "E", ".", "m", "d">>
Text_home == <<"h", "o", "m", "e">>
Text_user == <<"u", "s", "e", "r">>
Text_app == <<"a", "p", "p">>

\* C1: for the five-line input of scenario 1, run to the end from an empty
\* base directory, the created paths are exactly project/, project/src/,
\* project/src/main.ext, project/src/lib.ext and project/README.md.
ScenarioOneCreatesUnderProject ==
  (lines = Scenario1 /\ pc = "done") =>
    Created = {Entry(<<CurDir, Text_project>>, "dir"),
               Entry(<<CurDir, Text_project, Text_src>>, "dir"),
               Entry(<<CurDir, Text_project, Text_src, Text_main>>, "file"),
               Entry(<<CurDir, Text_project, Text_src, Text_lib>>, "file"),
               Entry(<<CurDir, Text_project, Text_readme>>, "file")}

\* the reference model of C2: per depth the most recent directory name, the
\* entries at depth >= d reset by a node of depth d, each node created at
\* base + [entries for depths 0..d-1] + name
RECURSIVE RefAncestors(_, _, _)
RefAncestors(levels, k, d) ==
  IF k >= d THEN <<>>
  ELSE (IF \E l \in levels : l[1] = k
        THEN <<(CHOOSE l \in levels : l[1] = k)[2]>>
        ELSE <<>>) \o RefAncestors(levels, k + 1, d)

RECURSIVE RefRun(_, _, _, _, _)
RefRun(ns, k, base, levels, acc) ==
  IF k > Len(ns) THEN acc
  ELSE LET n == ns[k]
           kept == {l \in levels : l[1] < n.indent}
           path == Append(JoinAll(base, RefAncestors(kept, 0, n.indent)), n.name)
       IN RefRun(ns, k + 1, base,
                 IF n.is_dir THEN kept \cup {<<n.indent, n.name>>} ELSE kept,
                 [created |-> acc.created
                                \cup {Entry(path, IF n.is_dir THEN "dir" ELSE "file")},
                  jumped |-> acc.jumped
                               \/ \E d \in 0..(n.indent - 1) : \A l \in kept : l[1] # d])

Reference(ns, base) == RefRun(ns, 1, base, {}, [created |-> {}, jumped |-> FALSE])

SingleNames(ns) == \A k \in 1..Len(ns) : SplitNames(ns[k].name) = <<ns[k].name>>

KindOf(call) == IF call.op = "File::create" THEN "file" ELSE "dir"

\* C3: a failing creation call ends the run with a failure: it is the last
\* call ever issued (no call for the remaining names of the node nor for a
\* later node), the result is a failure only after a failed call, and what
\* the calls before it created is still there.
FailureIsFatal ==
  /\ \A i \in 1..Len(calls) : ~calls[i].ok => (i = Len(calls) /\ pc = "failed")
  /\ pc = "failed" => (calls # <<>> /\ ~calls[Len(calls)].ok)
  /\ \A i \in 1..Len(calls) : calls[i].ok => Entry(calls[i].path, KindOf(calls[i])) \in fs

\* the first of two names of a node fails after an earlier node was created
FailureIsFatalWitness ==
  /\ pc = "failed"
  /\ cur >= 1
  /\ Len(nodes) = cur + 1
  /\ Len(SplitNames(nodes[cur + 1].name)) = 2
  /\ Len(calls) >= 2
  /\ calls[Len(calls)].path[Len(calls[Len(calls)].path)] = SplitNames(nodes[cur + 1].name)[1]
  /\ Cardinality(Created) >= 1

\* the nodes and the failure count the first n lines give
RECURSIVE NodesOf(_, _, _)
NodesOf(ls, n, win) ==
  IF n = 0 THEN <<>>
  ELSE LET r == parse_tree_line(ls[n], n, win)
       IN IF r.ok THEN Append(NodesOf(ls, n - 1, win), r.node) ELSE NodesOf(ls, n - 1, win)

FailuresOf(ls, n, win) == Cardinality({i \in 1..n : ~parse_tree_line(ls[i], i, win).ok})

\* C4: a line that fails to parse adds no node and adds one to the failure
\* counter, and never ends the run: the run ends with status 1 only on an
\* empty input or after the last line when no line has parsed, so the
\* parseable lines all become nodes.
ParseFailuresAreLocal ==
  /\ nodes = NodesOf(lines, idx, windows)
  /\ parse_errors = FailuresOf(lines, idx, windows)
  /\ pc = "exit1" => (lines = <<>> \/ (idx = Len(lines) /\ nodes = <<>>))
  /\ pc \notin {"read", "parse", "exit1"} => idx = Len(lines)

\* a line fails, a later one becomes a node, and the run builds it
ParseFailuresAreLocalWitness ==
  /\ pc = "done"
  /\ Len(lines) = 2
  /\ ~parse_tree_line(lines[1], 1, windows).ok
  /\ parse_errors = 1
  /\ Len(nodes) = 1
  /\ nodes[1].line_number = 2
  /\ Created # {}

\* C5: with zero parsed nodes the run ends with status 1 and the filesystem
\* is untouched: no parent directory is created and no creation call made.
NoNodesNoMutation ==
  /\ (nodes = <<>>) => (fs = InitialFs /\ calls = <<>>)
  /\ (nodes = <<>> /\ pc \notin {"read", "parse"}) => pc = "exit1"

\* every line of a two-line input failed to parse
NoNodesNoMutationWitness ==
  /\ pc = "exit1"
  /\ Len(lines) = 2
  /\ idx = 2
  /\ parse_errors = 2
  /\ nodes = <<>>

\* C6: with `/home/user/app/` on line 1 followed by children, the base is
\* /home/user, the first node is the directory app, and app is created as a
\* directory under the base with the children under it.
AbsoluteRootIsDirectory ==
  (lines = Scenario2 /\ pc = "done") =>
    /\ base_path = <<RootDir, Text_home, Text_user>>
    /\ nodes[1].name = Text_app
    /\ nodes[1].is_dir
    /\ Entry(<<RootDir, Text_home, Text_user, Text_app>>, "dir") \in fs
    /\ Entry(<<RootDir, Text_home, Text_user, Text_app, Text_src>>, "dir") \in fs

\* the calls a node with k names makes
CallsOf(node) ==
  IF node.is_dir THEN Len(SplitNames(node.name)) ELSE 2 * Len(SplitNames(node.name))

\* the paths of the targets of a node whose last call is the e-th call
TargetsEndingAt(e, node) ==
  [i \in 1..Len(SplitNames(node.name)) |->
     calls[e - CallsOf(node) + (IF node.is_dir THEN i ELSE 2 * i)].path]

\* the targets of the node just processed, when it has two names or more:
\* one parent, the node's kind, and the stack is that parent plus the first
\* name for a directory node, that parent alone for a file node
ConjunctionTargets ==
  (pc \in {"build", "done"} /\ cur >= 1 /\ Len(SplitNames(nodes[cur].name)) >= 2) =>
    LET node == nodes[cur]
        names == SplitNames(node.name)
        targets == TargetsEndingAt(Len(calls), node)
    IN /\ \A i \in 1..Len(names) :
            /\ targets[i] = Append(Parent(targets[1]), names[i])
            /\ Entry(targets[i], IF node.is_dir THEN "dir" ELSE "file") \in fs
       /\ node.is_dir => JoinAll(base_path, path_stack) = targets[1]
       /\ ~node.is_dir => JoinAll(base_path, path_stack) = Parent(targets[1])

\* a deeper node right after a directory node of two names or more
ConjunctionLater ==
  (/\ pc \in {"build", "done"}
   /\ cur >= 2
   /\ Len(SplitNames(nodes[cur - 1].name)) >= 2
   /\ nodes[cur - 1].is_dir
   /\ SplitNames(nodes[cur].name) # <<>>
   /\ nodes[cur].indent > nodes[cur - 1].indent) =>
    LET mine == TargetsEndingAt(Len(calls), nodes[cur])
        theirs == TargetsEndingAt(Len(calls) - CallsOf(nodes[cur]), nodes[cur - 1])
    IN \A i \in 1..Len(mine) : Parent(mine[i]) = theirs[1]

\* C7: a node with k >= 2 names gives k targets of the node's kind in one
\* parent directory; a directory node pushes its first name and nothing
\* else, a file node pushes nothing; a deeper node that follows a directory
\* node is created under the first name, never under a later one.
ConjunctionSplitFirstOnly == ConjunctionTargets /\ ConjunctionLater

\* a directory node with two names followed by a deeper file
ConjunctionSplitFirstOnlyWitness ==
  /\ pc = "done"
  /\ cur = 2
  /\ Len(SplitNames(nodes[1].name)) = 2
  /\ nodes[1].is_dir
  /\ nodes[2].indent = 1
  /\ ~nodes[2].is_dir
  /\ SplitNames(nodes[2].name) # <<>>
  /\ Cardinality(Created) = 3

\* the number of vertical connectors before the name of a line
BarsBeforeName(raw) ==
  LET line == remove_comments(TrimEnd(raw))
      hit == {m \in 1..Len(Markers) : Contains(line, Markers[m])}
      start == IF hit # {}
               THEN Min(Occurrences(line, Markers[Min(hit)])) + Len(Markers[Min(hit)])
               ELSE Len(line) - Len(TrimStartMatches(line, TreeChars))
  IN Cardinality({i \in 1..start : line[i] = VBar})

\* C8: the depth of every parsed node is the number of vertical connectors
\* that precede the name on its line, whatever the spacing.
DepthIsBarsBeforeName ==
  \A k \in 1..Len(nodes) : nodes[k].indent = BarsBeforeName(lines[nodes[k].line_number])

Core(r) == [x \in (DOMAIN r) \ {"trace"} |-> r[x]]

\* C9: the debug flag changes nothing but the diagnostics: from every state
\* of a run, the step taken with the flag set and the step taken with it
\* clear give the same nodes, failure count, calls, stack, filesystem and
\* result, so two runs that differ only in the flag stay equal throughout.
DebugChangesNothing ==
  /\ (pc = "parse" /\ idx < Len(lines)) =>
       Core(ParseStep(nodes, root_full_path, parse_errors, lines[idx + 1], idx, windows, TRUE))
       = Core(ParseStep(nodes, root_full_path, parse_errors, lines[idx + 1], idx, windows, FALSE))
  /\ (pc = "parse" /\ idx = Len(lines) /\ nodes # <<>>) =>
       \A fail \in BOOLEAN :
         Core(RootOutcome(root_full_path, fs, fail, TRUE))
         = Core(RootOutcome(root_full_path, fs, fail, FALSE))
  /\ (pc = "build" /\ cur < Len(nodes)) =>
       \A failAt \in 0..(2 * Len(SplitNames(nodes[cur + 1].name))) :
         Core(NodeOutcome(nodes[cur + 1], path_stack, base_path, fs, failAt, TRUE))
         = Core(NodeOutcome(nodes[cur + 1], path_stack, base_path, fs, failAt, FALSE))

\* a run with the flag set that skipped a line, warned about a depth jump
\* and created something
DebugChangesNothingWitness ==
  /\ debug
  /\ pc = "done"
  /\ parse_errors >= 1
  /\ \E k \in 1..Len(nodes) : nodes[k].indent >= 1
  /\ Created # {}
  /\ trace >= 6

\* the absolute-path side value of the first line that parses
RECURSIVE FirstFull(_, _, _)
FirstFull(ls, i, win) ==
  IF i > Len(ls) THEN None
  ELSE IF parse_tree_line(ls[i], i, win).ok THEN parse_tree_line(ls[i], i, win).full
  ELSE FirstFull(ls, i + 1, win)

\* C10: the base is the parent of the absolute path of the first parsed
\* node, on whatever line that node is, and the working directory when the
\* first parsed node has no absolute path.
BaseFromFirstParsedNode ==
  pc \in {"build", "done"} =>
    base_path = IF FirstFull(lines, 1, windows) # None
                THEN extract_parent_path(FirstFull(lines, 1, windows))
                ELSE Cwd

\* the stack a node of depth node.indent leaves behind a stack S, as C11 has
\* it: the first min(d, len(S)) entries of S, then the first name of a
\* directory node
StackAfter(S, node) ==
  LET names == SplitNames(node.name)
      kept == SubSeq(S, 1, Min({node.indent, Len(S)}))
  IN IF node.is_dir /\ names # <<>> THEN Append(kept, names[1]) ELSE kept

\* C11 as stated: every node processed without a filesystem failure, one
\* whose name leaves no fragment included, leaves the stack truncated to
\* min(depth, length) entries plus its first name when it is a directory.
StackFollowsDepth ==
  [][(pc = "build" /\ cur' = cur + 1) =>
       path_stack' = StackAfter(path_stack, nodes'[cur'])]_vars

\* C11 amended: the same for every node that has at least one name; a node
\* whose name leaves no fragment is skipped and leaves the stack as it was,
\* not truncated.
StackFollowsDepthOfNamedNodes ==
  [][(pc = "build" /\ cur' = cur + 1) =>
       IF SplitNames(nodes'[cur'].name) # <<>>
       THEN path_stack' = StackAfter(path_stack, nodes'[cur'])
       ELSE path_stack' = path_stack]_vars

\* a directory, a directory inside it, then a directory node of two names
\* beside the second: the stack went from 2 entries to 1 and then took the
\* first of the two names
StackFollowsDepthOfNamedNodesWitness ==
  /\ pc = "done"
  /\ cur = 3
  /\ nodes[1].is_dir /\ nodes[1].indent = 0
  /\ nodes[2].is_dir /\ nodes[2].indent = 1
  /\ nodes[3].is_dir /\ nodes[3].indent = 1
  /\ Len(SplitNames(nodes[1].name)) = 1
  /\ Len(SplitNames(nodes[2].name)) = 1
  /\ Len(SplitNames(nodes[3].name)) = 2
  /\ path_stack = <<nodes[1].name, SplitNames(nodes[3].name)[1]>>
  /\ Cardinality(Created) = 3

\* a step of the loop body of create_structure, and the node it handles
NodeStep == pc = "build" /\ pc' # "done"

StepNode == nodes'[cur + 1]

\* the calls the step has issued
StepCalls == SubSeq(calls', Len(calls) + 1, Len(calls'))

\* C12: every depth-0 node with at least one name restarts the hierarchy:
\* whatever the stack was, each call of the node is on a path directly under
\* the base (the base itself for the parent of a file), each target exists
\* directly under the base when the node succeeds, and the stack is then
\* exactly the first name of a directory node, empty after a file node.
DepthZeroRestarts ==
  [][(NodeStep /\ StepNode.indent = 0 /\ SplitNames(StepNode.name) # <<>>) =>
       LET names == SplitNames(StepNode.name)
           kind == IF StepNode.is_dir THEN "dir" ELSE "file"
       IN /\ \A i \in 1..Len(StepCalls) :
               \/ StepCalls[i].path = base_path
               \/ \E k \in 1..Len(names) : StepCalls[i].path = Append(base_path, names[k])
          /\ cur' = cur + 1 =>
               /\ \A k \in 1..Len(names) : Entry(Append(base_path, names[k]), kind) \in fs'
               /\ path_stack' = IF StepNode.is_dir THEN <<names[1]>> ELSE <<>>]_vars

\* a directory, a directory inside it, then a depth-0 directory node of two
\* names: the stack of 2 entries was dropped and holds the first name alone
DepthZeroRestartsWitness ==
  /\ pc = "done"
  /\ cur = 3
  /\ nodes[1].is_dir /\ nodes[1].indent = 0
  /\ nodes[2].is_dir /\ nodes[2].indent = 1 /\ SplitNames(nodes[2].name) # <<>>
  /\ nodes[3].is_dir /\ nodes[3].indent = 0
  /\ Len(SplitNames(nodes[3].name)) = 2
  /\ path_stack = <<SplitNames(nodes[3].name)[1]>>
  /\ \A k \in 1..2 : Entry(Append(base_path, SplitNames(nodes[3].name)[k]), "dir") \in fs
  /\ Cardinality(Created) = 3

\* C13: a node with depth > 0 and depth > len(stack) is not an error: every
\* call of the node is on base + all the stack entries + name (or on that
\* parent, for a file), the step fails only when a creation call fails, and
\* otherwise the targets exist under the deepest known ancestor, the stack
\* has lost nothing, and the loop goes on to the next node.
DepthJumpTolerated ==
  [][(/\ NodeStep
      /\ StepNode.indent > 0
      /\ StepNode.indent > Len(path_stack)
      /\ SplitNames(StepNode.name) # <<>>) =>
       LET names == SplitNames(StepNode.name)
           kind == IF StepNode.is_dir THEN "dir" ELSE "file"
           under == JoinAll(base_path, path_stack)
       IN /\ StepCalls # <<>>
          /\ \A i \in 1..Len(StepCalls) :
               \/ StepCalls[i].path = under
               \/ \E k \in 1..Len(names) : StepCalls[i].path = Append(under, names[k])
          /\ pc' = "failed" <=> ~StepCalls[Len(StepCalls)].ok
          /\ pc' # "failed" =>
               /\ pc' = "build"
               /\ cur' = cur + 1
               /\ \A k \in 1..Len(names) : Entry(Append(under, names[k]), kind) \in fs'
               /\ path_stack' = IF StepNode.is_dir THEN Append(path_stack, names[1])
                                ELSE path_stack]_vars

\* a directory at depth 0, then a file node of two names at depth 2: both
\* files are in the directory and the run ended well
DepthJumpToleratedWitness ==
  /\ pc = "done"
  /\ cur = 2
  /\ nodes[1].is_dir /\ nodes[1].indent = 0 /\ Len(SplitNames(nodes[1].name)) = 1
  /\ ~nodes[2].is_dir /\ nodes[2].indent = 2 /\ Len(SplitNames(nodes[2].name)) = 2
  /\ path_stack = <<nodes[1].name>>
  /\ \A k \in 1..2 :
       Entry(<<CurDir, nodes[1].name, SplitNames(nodes[2].name)[k]>>, "file") \in fs

Connectors == {VBar, Tee, Ell, Dash, TeeDown, Cross}

HasConnector(raw) == \E i \in 1..Len(raw) : raw[i] \in Connectors

LeadingWhitespace(raw) == Len(raw) - Len(TrimStart(raw))

Text_deep == <<"d", "e", "e", "p", ".", "t", "x", "t">>

\* C14: the node of a line without any connector glyph has for depth the
\* number of leading whitespace characters divided by 4; the line of 12
\* spaces and `deep.txt` after the directory src is created under src.
PlainIndentDepthIsWidthOverFour ==
  /\ \A k \in 1..Len(nodes) :
       ~HasConnector(lines[nodes[k].line_number]) =>
         nodes[k].indent = LeadingWhitespace(lines[nodes[k].line_number]) \div 4
  /\ (lines = <<LineSrc, LineDeep>> /\ pc = "done") =>
       Entry(<<CurDir, Text_src, Text_deep>>, "file") \in fs

\* C15: every name that reaches a creation call is valid on its own under
\* the rules of the platform: each trimmed fragment of the name of every
\* node passes is_valid_filename (a line with an invalid fragment gives no
\* node), and so does every component a creation call adds to the base.
FragmentsAreValid ==
  /\ \A k \in 1..Len(nodes) :
       \A j \in 1..Len(SplitNames(nodes[k].name)) :
         is_valid_filename(SplitNames(nodes[k].name)[j], windows)
  /\ \A i \in 1..Len(calls) :
       \A c \in (Len(base_path) + 1)..Len(calls[i].path) :
         is_valid_filename(calls[i].path[c], windows)

\* a line that, after trailing-whitespace and comment removal, is not empty
\* and holds only tree-drawing glyphs and whitespace
OnlyConnectors(raw) ==
  LET line == remove_comments(TrimEnd(raw))
  IN line # <<>> /\ \A i \in 1..Len(line) : line[i] \in TreeChars

\* C16: a line of connector glyphs and whitespace only (such as the bare
\* marker `+-- `) has no name candidate: it fails with NoNameFound and no
\* node, hence no file or directory, comes from it.
ConnectorOnlyLineHasNoName ==
  \A i \in 1..idx :
    OnlyConnectors(lines[i]) =>
      /\ parse_tree_line(lines[i], i, windows).err = "NoNameFound"
      /\ \A k \in 1..Len(nodes) : nodes[k].line_number # i

\* the base directory is decided
Decided(b) == b # NoPath

IsPrefix(p, q) == Len(p) <= Len(q) /\ SubSeq(q, 1, Len(p)) = p

\* C17: the run has three ordered phases. A line is parsed only while the
\* base is undecided and nothing has been created; the base is decided in
\* one step, taken after the last line, and never changes afterwards; the
\* builder runs only with a decided base, and every creation call, the
\* first as the last, is on a path under that one base.
PhasesAreOrdered ==
  [][/\ idx' # idx => (~Decided(base_path) /\ ~Decided(base_path') /\ calls = <<>>)
     /\ base_path' # base_path =>
          (pc = "parse" /\ idx = Len(lines) /\ ~Decided(base_path) /\ calls = <<>>)
     /\ pc' \in {"build", "done"} => (Decided(base_path') /\ idx' = Len(lines))
     /\ calls' # calls =>
          /\ Decided(base_path')
          /\ IsPrefix(calls, calls')
          /\ \A i \in 1..Len(calls') : IsPrefix(base_path', calls'[i].path)]_vars

\* scenario 2 run to its end: three lines parsed, the base /home/user
\* decided and created, then one call or more for each of the three nodes
PhasesAreOrderedWitness ==
  /\ pc = "done"
  /\ lines = Scenario2
  /\ idx = 3
  /\ cur = 3
  /\ base_path = <<RootDir, Text_home, Text_user>>
  /\ Len(calls) >= 5
  /\ calls[1] = Call("create_dir_all", base_path, TRUE)

\* C18: in a run without filesystem failure, each stack entry is the first
\* name of a directory node processed earlier, base + stack[0..i] is, for
\* every prefix of the stack, a directory that a creation call of this run
\* has made or found, and nothing exists underneath a path created as a file.
StackNamesCreatedDirectories ==
  pc \in {"build", "done"} =>
    /\ \A i \in 1..Len(path_stack) :
         LET dir == JoinAll(base_path, SubSeq(path_stack, 1, i))
         IN /\ \E k \in 1..cur :
                 /\ nodes[k].is_dir
                 /\ SplitNames(nodes[k].name) # <<>>
                 /\ SplitNames(nodes[k].name)[1] = path_stack[i]
            /\ \E c \in 1..Len(calls) : calls[c] = Call("create_dir_all", dir, TRUE)
            /\ Entry(Resolve(dir), "dir") \in fs
    /\ \A e \in Created :
         e.kind = "file" => \A o \in fs : IsPrefix(e.path, o.path) => o = e

\* three directories one inside the other: the stack has 3 entries, each a
\* directory the run has created
StackNamesCreatedDirectoriesWitness ==
  /\ pc = "build"
  /\ cur = 3
  /\ \A k \in 1..3 : nodes[k].is_dir /\ nodes[k].indent = k - 1
  /\ Len(path_stack) = 3
  /\ Cardinality(Created) = 3

\* a component that keeps a path inside the directory it is joined to
Plain(c) == c # <<>> /\ (\A i \in 1..Len(c) : c[i] # "/") /\ c \notin {<<".">>, DotDot}

\* C20: on the POSIX-style ruleset every path passed to a creation call is
\* the base followed only by components that are non-empty, hold no
\* separator and are neither `.` nor `..`, and every entry the run creates
\* lies inside the base (or is the base or one of its ancestors).
CreatedInsideBase ==
  ~windows =>
    /\ \A i \in 1..Len(calls) :
         /\ IsPrefix(base_path, calls[i].path)
         /\ \A c \in (Len(base_path) + 1)..Len(calls[i].path) : Plain(calls[i].path[c])
    /\ \A e \in Created : IsPrefix(base_path, e.path) \/ IsPrefix(e.path, base_path)

\* C19: after the first idx lines, the nodes and the failures add up to idx,
\* the nodes are in the order of their lines with strictly increasing
\* line_number, and each line_number is the 1-based index of the line the
\* node was parsed from.
ParseLoopAccounting ==
  /\ Len(nodes) + parse_errors = idx
  /\ \A k \in 1..Len(nodes) : \A j \in 1..Len(nodes) :
       k < j => nodes[k].line_number < nodes[j].line_number
  /\ \A k \in 1..Len(nodes) :
       /\ nodes[k].line_number \in 1..idx
       /\ parse_tree_line(lines[nodes[k].line_number], nodes[k].line_number, windows).ok
       /\ parse_tree_line(lines[nodes[k].line_number], nodes[k].line_number, windows).node
            = nodes[k]

\* the parse loop is over for two lines, the first of which failed: one
\* failure, one node, and the node carries line number 2
ParseLoopAccountingWitness ==
  /\ pc = "parse"
  /\ Len(lines) = 2
  /\ idx = 2
  /\ parse_errors = 1
  /\ Len(nodes) = 1
  /\ nodes[1].line_number = 2
  /\ nodes[1] = parse_tree_line(lines[2], 2, windows).node

====
